---- MODULE Spec2Model ----
(***************************************************************************)
(* Impetus: pointer drag tracking with deceleration.                       *)
(*                                                                         *)
(* Two variants of the tracker are modelled side by side:                  *)
(*   "free"      dist/impetus.js  (2-D, friction decay, `decelerating`)    *)
(*   "attractor" src/Impetus.js   (1-D, settles on multiples of `width`)   *)
(* The variant is fixed at construction (Init).                            *)
(*                                                                         *)
(* JavaScript numbers are modelled as records [k, v]:                      *)
(*   k = "fin"   a finite number, v its value in units of 1/SCALE          *)
(*   k = "inf"   +Infinity (v = 1) or -Infinity (v = -1)                   *)
(*   k = "nan"   NaN                                                       *)
(*   k = "undef" the value `undefined` (NaN in arithmetic)                 *)
(* Pointer coordinates and timestamps are integers (px, ms).               *)
(***************************************************************************)
EXTENDS Integers, Sequences, FiniteSets, TLC

\* ---------------------------------------------------------------- bounds
\* fixed-point resolution of finite numbers
SCALE == 1000
\* number of inputs (pointer events, API calls, clock advances)
MaxEvents == 4
\* number of API calls among the inputs
MaxCalls == 2

\* ------------------------------------------------------------ JS numbers
Fin(v) == [k |-> "fin", v |-> v]
PosInf == [k |-> "inf", v |-> 1]
NegInf == [k |-> "inf", v |-> -1]
NaN == [k |-> "nan", v |-> 0]
Undefined == [k |-> "undef", v |-> 0]
Zero == Fin(0)
\* an integer (px, ms, a literal) as a number
Num(i) == Fin(i * SCALE)

IsNaN(a) == a.k \in {"nan", "undef"}
IsFin(a) == a.k = "fin"
IsInf(a) == a.k = "inf"
Sgn(i) == IF i > 0 THEN 1 ELSE IF i < 0 THEN -1 ELSE 0
AbsInt(i) == IF i < 0 THEN -i ELSE i

\* integer division rounded to nearest (b # 0)
RDiv(a, b) ==
    LET n == AbsInt(a)
        d == AbsInt(b)
        q == (2 * n + d) \div (2 * d)
    IN  IF Sgn(a) * Sgn(b) < 0 THEN -q ELSE q

NNeg(a) ==
    IF IsNaN(a) THEN NaN
    ELSE IF IsInf(a) THEN [k |-> "inf", v |-> -a.v]
    ELSE Fin(-a.v)

NAdd(a, b) ==
    IF IsNaN(a) \/ IsNaN(b) THEN NaN
    ELSE IF IsInf(a) /\ IsInf(b) THEN (IF a.v = b.v THEN a ELSE NaN)
    ELSE IF IsInf(a) THEN a
    ELSE IF IsInf(b) THEN b
    ELSE Fin(a.v + b.v)

NSub(a, b) == NAdd(a, NNeg(b))

NMul(a, b) ==
    IF IsNaN(a) \/ IsNaN(b) THEN NaN
    ELSE IF IsInf(a) \/ IsInf(b)
         THEN (IF Sgn(a.v) * Sgn(b.v) = 0 THEN NaN
               ELSE [k |-> "inf", v |-> Sgn(a.v) * Sgn(b.v)])
    ELSE Fin(RDiv(a.v * b.v, SCALE))

NDiv(a, b) ==
    IF IsNaN(a) \/ IsNaN(b) THEN NaN
    ELSE IF IsInf(a) /\ IsInf(b) THEN NaN
    ELSE IF IsInf(a) THEN [k |-> "inf", v |-> a.v * (IF b.v < 0 THEN -1 ELSE 1)]
    ELSE IF IsInf(b) THEN Zero
    ELSE IF b.v = 0
         THEN (IF a.v = 0 THEN NaN ELSE [k |-> "inf", v |-> Sgn(a.v)])
    ELSE Fin(RDiv(a.v * SCALE, b.v))

NAbs(a) ==
    IF IsNaN(a) THEN NaN
    ELSE IF IsInf(a) THEN PosInf
    ELSE Fin(AbsInt(a.v))

\* a < b ; false when either is NaN
NLt(a, b) ==
    /\ ~IsNaN(a)
    /\ ~IsNaN(b)
    /\ IF IsInf(a) THEN a.v = -1 /\ ~(IsInf(b) /\ b.v = -1)
       ELSE IF IsInf(b) THEN b.v = 1
       ELSE a.v < b.v

NGt(a, b) == NLt(b, a)

\* Math.floor
NFloor(a) ==
    IF IsNaN(a) THEN NaN
    ELSE IF IsInf(a) THEN a
    ELSE Fin((a.v \div SCALE) * SCALE)

\* `a || 0` on numbers: 0 and NaN are falsy, everything else (the
\* infinities included) is kept
OrZero(a) == IF IsNaN(a) \/ (IsFin(a) /\ a.v = 0) THEN Zero ELSE a

\* ----------------------------------------------------- program constants
\* `id: null` of a normalized mouse event
NullId == -1
\* `var pointerId` before the first pointer-down
UndefinedId == -2
\* `var pointerLastX, ...` before the first pointer-down; also the absent
\* y of the 1-D variant
NoCoord == -1
\* var stopThresholdDefault = 0.3
stopThresholdDefault == Fin(RDiv(3 * SCALE, 10))
\* const ACCELERATION = 3
ACCELERATION == Num(3)
\* const SLOWING_FACTOR = 0.92
SLOWING_FACTOR == Fin(RDiv(92 * SCALE, 100))

\* ------------------------------------------------------------ input sets
Variants == {"free", "attractor"}
\* constructor options
Multipliers == {Num(1), Num(2)}
Frictions == {Fin(RDiv(92 * SCALE, 100))}
Widths == {Num(4)}
InitialPositions == {Zero}
\* clock advances between two events (ms)
TimeSteps == {15, 101}
\* pointer positions <<clientX, clientY>>
Points == {<<0, 0>>, <<1, 0>>, <<0, 1>>}
\* Touch.identifier
TouchIds == {0}

Touches ==
    {[identifier |-> i, clientX |-> p[1], clientY |-> p[2]] :
        i \in TouchIds, p \in Points}

MouseEvent(type, x, y) ==
    [type |-> type, clientX |-> x, clientY |-> y,
     targetTouches |-> <<>>, changedTouches |-> <<>>]

TouchEvent(type, target, changed) ==
    [type |-> type, clientX |-> NoCoord, clientY |-> NoCoord,
     targetTouches |-> target, changedTouches |-> changed]

\* touch events of one type: the changed touch alone (no touch left on the
\* target), or a first target touch together with a changed touch of any id
TouchEvents(type) ==
    {TouchEvent(type, <<>>, <<t>>) : t \in Touches}
    \cup {TouchEvent(type, <<t>>, <<[t EXCEPT !.identifier = i]>>) :
             t \in Touches, i \in TouchIds}

MouseEvents(type) == {MouseEvent(type, p[1], p[2]) : p \in Points}

DownEvents == TouchEvents("touchstart") \cup MouseEvents("mousedown")
MoveEvents == TouchEvents("touchmove") \cup MouseEvents("mousemove")
UpEvents == TouchEvents("touchend") \cup MouseEvents("mouseup")
CancelEvents == TouchEvents("touchcancel")

\* ----------------------------------------------------------------- state
VARIABLES
    \* constructor options
    variant, friction, width, sourceEl, updateCallback, initialX,
    \* the error the constructor threw
    thrown,
    \* instance state (closure variables)
    multiplier, stopThreshold, targetX, targetY, decVelX, decVelY,
    pointerLastX, pointerLastY, pointerCurrentX, pointerCurrentY, pointerId,
    ticking, pointerActive, paused, decelerating, trackingPoints,
    \* environment: clock, listener registrations, animation-frame queue
    now, sourceListeners, documentListeners, rafQueue, frameRun,
    \* observation
    lastEv, cbCount, lastCb, unintegratedX, nEvents, nCalls

options == <<variant, friction, width, sourceEl, updateCallback, initialX>>
position == <<targetX, targetY>>
velocity == <<decVelX, decVelY>>
pointer == <<pointerLastX, pointerLastY, pointerCurrentX, pointerCurrentY>>
vars == <<variant, friction, width, sourceEl, updateCallback, initialX,
          thrown,
          multiplier, stopThreshold, targetX, targetY, decVelX, decVelY,
          pointerLastX, pointerLastY, pointerCurrentX, pointerCurrentY,
          pointerId, ticking, pointerActive, paused, decelerating,
          trackingPoints, now, sourceListeners, documentListeners, rafQueue,
          frameRun, lastEv, cbCount, lastCb, unintegratedX, nEvents,
          nCalls>>

Ev(op, id) == [op |-> op, id |-> id]

\* the constructor returned normally
NoError == "none"

\* the constructor: option defaults, closure variables, init()
Init ==
    /\ variant \in Variants
    /\ friction \in Frictions
    /\ width \in Widths
    /\ multiplier \in Multipliers
    /\ stopThreshold = IF variant = "free"
                       THEN NMul(stopThresholdDefault, multiplier)
                       ELSE Undefined
    /\ sourceEl = "found"
    /\ updateCallback = "defined"
    /\ initialX \in InitialPositions
    /\ thrown = NoError
    /\ targetX = initialX
    /\ targetY = Zero
    /\ decVelX = Undefined
    /\ decVelY = Undefined
    /\ pointerLastX = NoCoord
    /\ pointerLastY = NoCoord
    /\ pointerCurrentX = NoCoord
    /\ pointerCurrentY = NoCoord
    /\ pointerId = UndefinedId
    /\ ticking = FALSE
    /\ pointerActive = FALSE
    /\ paused = FALSE
    /\ decelerating = FALSE
    /\ trackingPoints = <<>>
    /\ now = 0
    /\ sourceListeners = TRUE
    /\ documentListeners = FALSE
    /\ rafQueue = <<>>
    /\ frameRun = <<>>
    /\ lastEv = Ev("init", NullId)
    /\ cbCount = 0
    /\ lastCb = <<>>
    /\ unintegratedX = 0
    /\ nEvents = 0
    /\ nCalls = 0

\* ------------------------------------------------------------- functions
normalizeEvent(ev) ==
    IF ev.type \in {"touchmove", "touchstart", "touchend"}
    THEN LET touch == IF Len(ev.targetTouches) > 0
                      THEN ev.targetTouches[1]
                      ELSE ev.changedTouches[1]
         IN  [x |-> touch.clientX, y |-> touch.clientY, id |-> touch.identifier]
    ELSE [x |-> ev.clientX, y |-> ev.clientY, id |-> NullId]

\* the y a handler stores: the 1-D variant keeps no y
AxisY(y) == IF variant = "free" THEN y ELSE NoCoord

\* an addTrackingPoint that prunes nothing
DropNothing(points, time) == points

RECURSIVE DropOld(_, _)
\* the while loop of addTrackingPoint: shift while the oldest point is
\* more than 100 ms old
DropOld(points, time) ==
    IF Len(points) > 0 /\ ~(time - points[1].time <= 100)
    THEN DropOld(Tail(points), time)
    ELSE points

addTrackingPoint(points, x, y, time) ==
    Append(DropOld(points, time), [x |-> x, y |-> y, time |-> time])

\* a frame requested on every move
requestTickAlways(queue) == Append(queue, "updateAndRender")

\* requestTick: the queue after the call
requestTick(queue) ==
    IF ~ticking THEN Append(queue, "updateAndRender") ELSE queue

\* startDecelAnim's velocity of one axis from the first and last point
ReleaseVelocity(first, last, firstTime, lastTime) ==
    LET offset == Num(last - first)
        timeOffset == Num(lastTime - firstTime)
        D == NDiv(NDiv(timeOffset, Num(15)), multiplier)
    IN  OrZero(NDiv(offset, D))

\* startDecelAnim: the velocities computed from the sample buffer
ReleaseVelX(points) ==
    ReleaseVelocity(points[1].x, points[Len(points)].x,
                    points[1].time, points[Len(points)].time)

ReleaseVelY(points) ==
    ReleaseVelocity(points[1].y, points[Len(points)].y,
                    points[1].time, points[Len(points)].time)

\* a gate that looks at the x axis only
StartsDecelXOnly(vx, vy) == NGt(NAbs(vx), Num(1))

\* startDecelAnim, free variant: the gate on the release velocity
StartsDecel(vx, vy) == NGt(NAbs(vx), Num(1)) \/ NGt(NAbs(vy), Num(1))

\* stepDecelAnim, free variant: the gate on the decayed velocity
KeepsDecel(vx, vy) ==
    NGt(NAbs(vx), stopThreshold) \/ NGt(NAbs(vy), stopThreshold)

\* a pointer-down accepted although a session is active
DownAcceptedWhileActive == ~paused

\* a pointer-down accepted while the tracker is paused
DownAcceptedWhilePaused == ~pointerActive

\* onDown's condition
DownAccepted == ~pointerActive /\ ~paused

\* an accepted pointer-down that leaves a decay running
DownKeepsDecelerating == decelerating

\* onDown: `decelerating = false` (the attractor variant has no such flag)
DownDecelerating == IF variant = "free" THEN FALSE ELSE decelerating

\* a move or up accepted from any pointer
EventAcceptedAnyId(event) == pointerActive

\* a move or up accepted after the session has ended
EventAcceptedInactive(event) == event.id = pointerId

\* onMove's and onUp's condition
EventAccepted(event) == pointerActive /\ event.id = pointerId

\* an input event may be delivered: no frame callback is running and the
\* event budget is not used up
InputEnabled == frameRun = <<>> /\ nEvents < MaxEvents

\* an API call may be made
CallEnabled == InputEnabled /\ nCalls < MaxCalls

\* --------------------------------------------------------- event handlers
\* touchstart / mousedown on the source element
OnDown(ev) ==
    LET event == normalizeEvent(ev)
    IN  /\ InputEnabled
        /\ sourceListeners
        /\ IF DownAccepted
           THEN /\ pointerActive' = TRUE
                /\ decelerating' = DownDecelerating
                /\ pointerId' = event.id
                /\ pointerLastX' = event.x
                /\ pointerCurrentX' = event.x
                /\ pointerLastY' = AxisY(event.y)
                /\ pointerCurrentY' = AxisY(event.y)
                /\ trackingPoints' =
                       addTrackingPoint(<<>>, event.x, AxisY(event.y), now)
                /\ documentListeners' = TRUE
           ELSE UNCHANGED <<pointerActive, decelerating, pointerId, pointer,
                            trackingPoints, documentListeners>>
        /\ lastEv' = Ev("onDown", event.id)
        /\ nEvents' = nEvents + 1
        /\ UNCHANGED <<options, thrown,
                       multiplier, stopThreshold, position, velocity,
                       ticking, paused, now, sourceListeners, rafQueue,
                       frameRun, cbCount, lastCb, unintegratedX, nCalls>>

\* a move that records the event's own position
moveSampleOfEvent(event) == <<event.x, AxisY(event.y)>>

\* onMove: `addTrackingPoint(pointerLastX, pointerLastY)`
moveSample(event) == <<pointerLastX, pointerLastY>>

\* touchmove / mousemove on the document
OnMove(ev) ==
    LET event == normalizeEvent(ev)
    IN  /\ InputEnabled
        /\ documentListeners
        /\ IF EventAccepted(event)
           THEN /\ pointerCurrentX' = event.x
                /\ pointerCurrentY' = AxisY(event.y)
                /\ trackingPoints' =
                       addTrackingPoint(trackingPoints, moveSample(event)[1],
                                        moveSample(event)[2], now)
                /\ rafQueue' = requestTick(rafQueue)
                /\ ticking' = TRUE
                /\ unintegratedX' = unintegratedX + (event.x - pointerCurrentX)
           ELSE UNCHANGED <<pointerCurrentX, pointerCurrentY, trackingPoints,
                            rafQueue, ticking, unintegratedX>>
        /\ lastEv' = Ev("onMove", event.id)
        /\ nEvents' = nEvents + 1
        /\ UNCHANGED <<options, thrown,
                       multiplier, stopThreshold, position, velocity,
                       pointerLastX, pointerLastY, pointerId, pointerActive,
                       paused, decelerating, now, sourceListeners,
                       documentListeners, frameRun, cbCount, lastCb, nCalls>>

\* stopTracking with startDecelAnim inlined
StopTracking ==
    LET points == addTrackingPoint(trackingPoints, pointerLastX,
                                   pointerLastY, now)
        vx == ReleaseVelX(points)
        vy == ReleaseVelY(points)
    IN  /\ pointerActive' = FALSE
        /\ trackingPoints' = points
        /\ decVelX' = vx
        /\ IF variant = "free"
           THEN /\ decVelY' = vy
                /\ IF StartsDecel(vx, vy)
                   THEN /\ decelerating' = TRUE
                        /\ rafQueue' = Append(rafQueue, "stepDecelAnim")
                   ELSE UNCHANGED <<decelerating, rafQueue>>
           ELSE /\ rafQueue' = Append(rafQueue, "stepDecelAnim")
                /\ UNCHANGED <<decVelY, decelerating>>
        /\ documentListeners' = FALSE

\* touchend / mouseup on the document
OnUp(ev) ==
    LET event == normalizeEvent(ev)
    IN  /\ InputEnabled
        /\ documentListeners
        /\ IF EventAccepted(event)
           THEN StopTracking
           ELSE UNCHANGED <<pointerActive, trackingPoints, velocity,
                            decelerating, rafQueue, documentListeners>>
        /\ lastEv' = Ev("onUp", event.id)
        /\ nEvents' = nEvents + 1
        /\ UNCHANGED <<options, thrown,
                       multiplier, stopThreshold, position, pointer,
                       pointerId, ticking, paused, now, sourceListeners,
                       frameRun, cbCount, lastCb, unintegratedX, nCalls>>

\* touchcancel on the document: stopTracking is the listener itself
OnCancel(ev) ==
    /\ InputEnabled
    /\ documentListeners
    /\ StopTracking
    /\ lastEv' = Ev("touchcancel", ev.changedTouches[1].identifier)
    /\ nEvents' = nEvents + 1
    /\ UNCHANGED <<options, thrown,
                   multiplier, stopThreshold, position, pointer,
                   pointerId, ticking, paused, now, sourceListeners,
                   frameRun, cbCount, lastCb, unintegratedX, nCalls>>

\* ------------------------------------------------------------ public API
Pause ==
    /\ CallEnabled
    /\ pointerActive' = FALSE
    /\ paused' = TRUE
    /\ lastEv' = Ev("pause", NullId)
    /\ nEvents' = nEvents + 1
    /\ nCalls' = nCalls + 1
    /\ UNCHANGED <<options, thrown,
                   multiplier, stopThreshold, position, velocity,
                   pointer, pointerId, ticking, decelerating, trackingPoints,
                   now, sourceListeners, documentListeners, rafQueue,
                   frameRun, cbCount, lastCb, unintegratedX>>

Resume ==
    /\ CallEnabled
    /\ paused' = FALSE
    /\ lastEv' = Ev("resume", NullId)
    /\ nEvents' = nEvents + 1
    /\ nCalls' = nCalls + 1
    /\ UNCHANGED <<options, thrown,
                   multiplier, stopThreshold, position, velocity,
                   pointer, pointerId, ticking, pointerActive, decelerating,
                   trackingPoints, now, sourceListeners, documentListeners,
                   rafQueue, frameRun, cbCount, lastCb, unintegratedX>>

\* typeof a === 'number'
IsNumber(a) == a.k # "undef"

\* arguments of setValues / setX
SetArgs == {Num(1), Undefined}

\* setValues(x, y) of the free variant, setX(x) of the attractor variant
SetValues(x, y) ==
    /\ CallEnabled
    /\ IF variant = "free"
       THEN /\ targetX' = (IF IsNumber(x) THEN x ELSE targetX)
            /\ targetY' = (IF IsNumber(y) THEN y ELSE targetY)
       ELSE /\ targetX' = x
            /\ targetY' = targetY
    /\ lastEv' = Ev("setValues", NullId)
    /\ nEvents' = nEvents + 1
    /\ nCalls' = nCalls + 1
    /\ UNCHANGED <<options, thrown,
                   multiplier, stopThreshold, velocity, pointer,
                   pointerId, ticking, pointerActive, paused, decelerating,
                   trackingPoints, now, sourceListeners, documentListeners,
                   rafQueue, frameRun, cbCount, lastCb, unintegratedX>>

\* a setMultiplier that leaves the threshold as it was
stopThresholdKept(val) == stopThreshold

\* setMultiplier: `stopThreshold = stopThresholdDefault * multiplier`
stopThresholdFor(val) == NMul(stopThresholdDefault, val)

SetMultiplier(val) ==
    /\ CallEnabled
    /\ multiplier' = val
    /\ stopThreshold' = (IF variant = "free"
                         THEN stopThresholdFor(val)
                         ELSE stopThreshold)
    /\ lastEv' = Ev("setMultiplier", NullId)
    /\ nEvents' = nEvents + 1
    /\ nCalls' = nCalls + 1
    /\ UNCHANGED <<options, thrown,
                   position, velocity, pointer, pointerId, ticking,
                   pointerActive, paused, decelerating, trackingPoints, now,
                   sourceListeners, documentListeners, rafQueue, frameRun,
                   cbCount, lastCb, unintegratedX>>

Destroy ==
    /\ CallEnabled
    /\ sourceListeners' = FALSE
    /\ lastEv' = Ev("destroy", NullId)
    /\ nEvents' = nEvents + 1
    /\ nCalls' = nCalls + 1
    /\ UNCHANGED <<options, thrown,
                   multiplier, stopThreshold, position, velocity,
                   pointer, pointerId, ticking, pointerActive, paused,
                   decelerating, trackingPoints, now, documentListeners,
                   rafQueue, frameRun, cbCount, lastCb, unintegratedX>>

\* ------------------------------------------------------------ environment
\* Date.now() moves on between two events
Advance(dt) ==
    /\ InputEnabled
    /\ now' = now + dt
    /\ lastEv' = Ev("advance", NullId)
    /\ nEvents' = nEvents + 1
    /\ UNCHANGED <<options, thrown,
                   multiplier, stopThreshold, position, velocity,
                   pointer, pointerId, ticking, pointerActive, paused,
                   decelerating, trackingPoints, sourceListeners,
                   documentListeners, rafQueue, frameRun, cbCount, lastCb,
                   unintegratedX, nCalls>>

\* a display frame begins: the callbacks requested so far are the ones it
\* runs; callbacks requested while it runs wait for the next frame
FrameBegin ==
    /\ frameRun = <<>>
    /\ rafQueue # <<>>
    /\ frameRun' = rafQueue
    /\ rafQueue' = <<>>
    /\ cbCount' = 0
    /\ lastEv' = Ev("frame", NullId)
    /\ UNCHANGED <<options, thrown,
                   multiplier, stopThreshold, position, velocity,
                   pointer, pointerId, ticking, pointerActive, paused,
                   decelerating, trackingPoints, now, sourceListeners,
                   documentListeners, lastCb, unintegratedX, nEvents,
                   nCalls>>

\* -------------------------------------------------------- frame callbacks
\* the arguments the update callback is called with
callbackArgs(x, y) == IF variant = "free" THEN <<x, y>> ELSE <<x>>

UpdateAndRender ==
    /\ frameRun # <<>>
    /\ Head(frameRun) = "updateAndRender"
    /\ frameRun' = Tail(frameRun)
    /\ targetX' = NAdd(targetX,
                       NMul(Num(pointerCurrentX - pointerLastX), multiplier))
    /\ targetY' = (IF variant = "free"
                   THEN NAdd(targetY,
                             NMul(Num(pointerCurrentY - pointerLastY),
                                  multiplier))
                   ELSE targetY)
    /\ cbCount' = cbCount + 1
    /\ lastCb' = callbackArgs(targetX', targetY')
    /\ pointerLastX' = pointerCurrentX
    /\ pointerLastY' = pointerCurrentY
    /\ ticking' = FALSE
    /\ unintegratedX' = unintegratedX - (pointerCurrentX - pointerLastX)
    /\ lastEv' = Ev("updateAndRender", NullId)
    /\ UNCHANGED <<options, thrown, multiplier, stopThreshold, velocity,
                   pointerCurrentX, pointerCurrentY, pointerId, pointerActive,
                   paused, decelerating, trackingPoints, now, sourceListeners,
                   documentListeners, rafQueue, nEvents, nCalls>>

\* a decay step that also returns early while the tracker is paused
StepReturnsEarlyWhenPaused == ~decelerating \/ paused

\* stepDecelAnim: `if (!decelerating) return;`
StepReturnsEarly == ~decelerating

\* a decay step that moves Position by the velocity it starts with and
\* decays the velocity afterwards
StepDecelFreeMoveFirst ==
    LET vx == NMul(decVelX, friction)
        vy == NMul(decVelY, friction)
    IN  IF StepReturnsEarly
        THEN UNCHANGED <<velocity, position, cbCount, lastCb, rafQueue,
                         decelerating>>
        ELSE /\ decVelX' = vx
             /\ decVelY' = vy
             /\ targetX' = NAdd(targetX, decVelX)
             /\ targetY' = NAdd(targetY, decVelY)
             /\ IF KeepsDecel(vx, vy)
                THEN /\ cbCount' = cbCount + 1
                     /\ lastCb' = callbackArgs(targetX', targetY')
                     /\ rafQueue' = Append(rafQueue, "stepDecelAnim")
                     /\ UNCHANGED decelerating
                ELSE /\ decelerating' = FALSE
                     /\ UNCHANGED <<cbCount, lastCb, rafQueue>>

\* stepDecelAnim of the free variant
StepDecelFree ==
    LET vx == NMul(decVelX, friction)
        vy == NMul(decVelY, friction)
    IN  IF StepReturnsEarly
        THEN UNCHANGED <<velocity, position, cbCount, lastCb, rafQueue,
                         decelerating>>
        ELSE /\ decVelX' = vx
             /\ decVelY' = vy
             /\ targetX' = NAdd(targetX, vx)
             /\ targetY' = NAdd(targetY, vy)
             /\ IF KeepsDecel(vx, vy)
                THEN /\ cbCount' = cbCount + 1
                     /\ lastCb' = callbackArgs(targetX', targetY')
                     /\ rafQueue' = Append(rafQueue, "stepDecelAnim")
                     /\ UNCHANGED decelerating
                ELSE /\ decelerating' = FALSE
                     /\ UNCHANGED <<cbCount, lastCb, rafQueue>>

\* Math.floor(a / b)
NFloorDiv(a, b) ==
    IF IsFin(a) /\ IsFin(b) /\ b.v # 0
    THEN Num(IF b.v > 0 THEN a.v \div b.v ELSE (-a.v) \div (-b.v))
    ELSE NFloor(NDiv(a, b))

\* a settle step that stops where it is instead of on the attractor
considerAttractorsNoSnap(pos, vel) ==
    LET SPEED_THRESHOLD == NMul(Fin(RDiv(4 * SCALE, 100)), width)
        DISTANCE_THRESHOLD == SPEED_THRESHOLD
        midPosition == NAdd(pos, NDiv(vel, Num(2)))
        attractor0 == NMul(NFloorDiv(midPosition, width), width)
        attractor1 == NAdd(attractor0, width)
        distance0 == NSub(midPosition, attractor0)
        distance1 == NSub(width, distance0)
        v1 == NMul(NAdd(vel, NMul(NDiv(NSub(distance0, distance1), width),
                                  ACCELERATION)),
                   SLOWING_FACTOR)
        p1 == NAdd(pos, v1)
    IN  IF NGt(vel, NNeg(SPEED_THRESHOLD))
           /\ NLt(p1, NAdd(attractor0, DISTANCE_THRESHOLD))
        THEN [velocityX |-> Zero, positionX |-> p1, again |-> FALSE]
        ELSE IF NLt(vel, SPEED_THRESHOLD)
                /\ NGt(p1, NSub(attractor1, DISTANCE_THRESHOLD))
        THEN [velocityX |-> Zero, positionX |-> p1, again |-> FALSE]
        ELSE [velocityX |-> v1, positionX |-> p1, again |-> TRUE]

\* a settle step that tests the velocity it has just updated
considerAttractorsNewVelocity(pos, vel) ==
    LET SPEED_THRESHOLD == NMul(Fin(RDiv(4 * SCALE, 100)), width)
        DISTANCE_THRESHOLD == SPEED_THRESHOLD
        midPosition == NAdd(pos, NDiv(vel, Num(2)))
        attractor0 == NMul(NFloorDiv(midPosition, width), width)
        attractor1 == NAdd(attractor0, width)
        distance0 == NSub(midPosition, attractor0)
        distance1 == NSub(width, distance0)
        v1 == NMul(NAdd(vel, NMul(NDiv(NSub(distance0, distance1), width),
                                  ACCELERATION)),
                   SLOWING_FACTOR)
        p1 == NAdd(pos, v1)
    IN  IF NGt(v1, NNeg(SPEED_THRESHOLD))
           /\ NLt(p1, NAdd(attractor0, DISTANCE_THRESHOLD))
        THEN [velocityX |-> Zero, positionX |-> attractor0, again |-> FALSE]
        ELSE IF NLt(v1, SPEED_THRESHOLD)
                /\ NGt(p1, NSub(attractor1, DISTANCE_THRESHOLD))
        THEN [velocityX |-> Zero, positionX |-> attractor1, again |-> FALSE]
        ELSE [velocityX |-> v1, positionX |-> p1, again |-> TRUE]

\* considerAttractors(position, velocity): the new velocityX and positionX,
\* and whether the step reschedules itself
considerAttractors(pos, vel) ==
    LET SPEED_THRESHOLD == NMul(Fin(RDiv(4 * SCALE, 100)), width)
        DISTANCE_THRESHOLD == SPEED_THRESHOLD
        midPosition == NAdd(pos, NDiv(vel, Num(2)))
        attractor0 == NMul(NFloorDiv(midPosition, width), width)
        attractor1 == NAdd(attractor0, width)
        distance0 == NSub(midPosition, attractor0)
        distance1 == NSub(width, distance0)
        v1 == NMul(NAdd(vel, NMul(NDiv(NSub(distance0, distance1), width),
                                  ACCELERATION)),
                   SLOWING_FACTOR)
        p1 == NAdd(pos, v1)
    IN  IF NGt(vel, NNeg(SPEED_THRESHOLD))
           /\ NLt(p1, NAdd(attractor0, DISTANCE_THRESHOLD))
        THEN [velocityX |-> Zero, positionX |-> attractor0, again |-> FALSE]
        ELSE IF NLt(vel, SPEED_THRESHOLD)
                /\ NGt(p1, NSub(attractor1, DISTANCE_THRESHOLD))
        THEN [velocityX |-> Zero, positionX |-> attractor1, again |-> FALSE]
        ELSE [velocityX |-> v1, positionX |-> p1, again |-> TRUE]

\* stepDecelAnim of the attractor variant
StepDecelAttractor ==
    LET r == considerAttractors(targetX, decVelX)
    IN  /\ decVelX' = r.velocityX
        /\ targetX' = r.positionX
        /\ cbCount' = cbCount + 1
        /\ lastCb' = callbackArgs(r.positionX, targetY)
        /\ rafQueue' = (IF r.again THEN Append(rafQueue, "stepDecelAnim")
                        ELSE rafQueue)
        /\ UNCHANGED <<decVelY, targetY, decelerating>>

StepDecelAnim ==
    /\ frameRun # <<>>
    /\ Head(frameRun) = "stepDecelAnim"
    /\ frameRun' = Tail(frameRun)
    /\ IF variant = "free" THEN StepDecelFree ELSE StepDecelAttractor
    /\ lastEv' = Ev("stepDecelAnim", NullId)
    /\ UNCHANGED <<options, thrown,
                   multiplier, stopThreshold, pointer, pointerId,
                   ticking, pointerActive, paused, trackingPoints, now,
                   sourceListeners, documentListeners, unintegratedX,
                   nEvents, nCalls>>

\* ---------------------------------------------------------- specification
Next ==
    \/ \E ev \in DownEvents : OnDown(ev)
    \/ \E ev \in MoveEvents : OnMove(ev)
    \/ \E ev \in UpEvents : OnUp(ev)
    \/ \E ev \in CancelEvents : OnCancel(ev)
    \/ Pause
    \/ Resume
    \/ \E x \in SetArgs, y \in SetArgs : SetValues(x, y)
    \/ \E val \in Multipliers : SetMultiplier(val)
    \/ Destroy
    \/ \E dt \in TimeSteps : Advance(dt)
    \/ FrameBegin
    \/ UpdateAndRender
    \/ StepDecelAnim

Spec == Init /\ [][Next]_vars

\* ------------------------------------------------------------ properties
RECURSIVE Count(_, _)
Count(queue, cb) ==
    IF queue = <<>> THEN 0
    ELSE (IF Head(queue) = cb THEN 1 ELSE 0) + Count(Tail(queue), cb)

\* frame callbacks requested and not yet run
Pending(cb) == Count(rafQueue, cb) + Count(frameRun, cb)

\* the step is a release: stopTracking removed the document listeners
Released == documentListeners /\ ~documentListeners'

\* C1: while a session is active a pointer-down of any pointer (mouse or
\* touch, same or other id) is ignored: the session, its pointer id, the
\* last and current pointer positions and the sample buffer stay as they
\* are, in the free and in the attractor variant.
C1_DownIgnoredWhileActive ==
    [][(lastEv'.op = "onDown" /\ pointerActive)
        => UNCHANGED <<pointerActive, pointerId, pointer, trackingPoints>>]_vars

\* a pointer-down of another pointer was delivered during a session
C1_Witness ==
    /\ lastEv.op = "onDown"
    /\ pointerActive
    /\ lastEv.id # pointerId

\* C2: while a session is active, a move or up event whose (normalized)
\* pointer id differs from the session's pointerId changes nothing: no
\* sample, no new current position, no frame request, the session goes on
\* and no decay or settle run starts.
C2_OtherPointerIgnored ==
    [][(lastEv'.op \in {"onMove", "onUp"} /\ pointerActive
        /\ lastEv'.id # pointerId)
        => UNCHANGED <<trackingPoints, pointer, rafQueue, ticking,
                       pointerActive, pointerId, velocity, decelerating,
                       position, cbCount, documentListeners>>]_vars

\* a move or up of another pointer was delivered during a session
C2_Witness ==
    /\ lastEv.op \in {"onMove", "onUp"}
    /\ pointerActive
    /\ lastEv.id # pointerId

\* C3: a touchcancel that arrives when no session is active, or that
\* belongs to another pointer than the session's, pushes no sample,
\* computes no velocity and starts no decay or settle run.
C3_CancelOnlyForSession ==
    [][(lastEv'.op = "touchcancel"
        /\ ~(pointerActive /\ lastEv'.id = pointerId))
        => UNCHANGED <<trackingPoints, velocity, rafQueue, decelerating>>]_vars

\* C4: at most one updateAndRender callback is pending, and one is pending
\* exactly when ticking is true.
C4_FrameRequestsCoalesced ==
    /\ Pending("updateAndRender") <= 1
    /\ ticking <=> Pending("updateAndRender") = 1

\* a second move was accepted while the frame of the first is still pending
C4_Witness ==
    /\ lastEv.op = "onMove"
    /\ pointerActive
    /\ lastEv.id = pointerId
    /\ Len(trackingPoints) >= 3
    /\ cbCount = 0
    /\ Pending("updateAndRender") = 1

\* C5: the update callback is invoked at most once within a frame tick.
C5_OneCallbackPerFrame == cbCount <= 1

\* C6: no accepted drag displacement is lost: once no updateAndRender
\* callback is pending, drag integration has moved Position by multiplier x
\* the displacement of the accepted moves, i.e. no accepted displacement is
\* left unintegrated.
C6_NoDisplacementLost ==
    Pending("updateAndRender") = 0 => unintegratedX = 0

\* C7: the velocity a release computes is finite on each axis.
C7_ReleaseVelocityFinite ==
    [][Released => /\ IsFin(decVelX')
                   /\ variant = "free" => IsFin(decVelY')]_vars

\* all samples of the buffer have the same position
SamePosition(points) ==
    \A i \in 1..Len(points) :
        points[i].x = points[1].x /\ points[i].y = points[1].y

\* C8: in the free variant a release starts a decay run (decelerating set,
\* one step scheduled) if and only if the release velocity exceeds 1 in
\* absolute value on at least one axis; a release whose samples all have the
\* same position gives velocity 0 on each axis, schedules nothing and causes
\* no callback.
C8_DecayStartsIffFast ==
    [][(variant = "free" /\ Released)
        => LET fast == \/ NGt(NAbs(decVelX'), Num(1))
                       \/ NGt(NAbs(decVelY'), Num(1))
           IN  /\ fast => /\ decelerating'
                          /\ rafQueue' = Append(rafQueue, "stepDecelAnim")
               /\ ~fast => /\ ~decelerating'
                           /\ rafQueue' = rafQueue
               /\ SamePosition(trackingPoints')
                    => /\ decVelX' = Zero
                       /\ decVelY' = Zero
                       /\ rafQueue' = rafQueue
                       /\ cbCount' = cbCount]_vars

\* a release on the y axis alone, with a finite velocity above 1
C8_Witness ==
    /\ variant = "free"
    /\ lastEv.op = "onUp"
    /\ ~documentListeners
    /\ decelerating
    /\ decVelX = Zero
    /\ IsFin(decVelY)

\* C9: in the free variant pointerActive and decelerating are never both
\* true, and a decay step that runs while a session is active changes neither
\* Position nor velocity and invokes no callback.
C9_DownCancelsDecay ==
    /\ [](variant = "free" => ~(pointerActive /\ decelerating))
    /\ [][(variant = "free" /\ lastEv'.op = "stepDecelAnim" /\ pointerActive)
           => UNCHANGED <<position, velocity, cbCount, rafQueue>>]_vars

\* a decay step scheduled by an earlier release ran during a session
C9_Witness ==
    /\ variant = "free"
    /\ lastEv.op = "stepDecelAnim"
    /\ pointerActive

\* C10: in the attractor variant a settle step that runs while a session is
\* active changes neither Position nor velocity, invokes no callback and
\* does not reschedule itself.
C10_DownCancelsSettle ==
    [][(variant = "attractor" /\ lastEv'.op = "stepDecelAnim"
        /\ pointerActive)
        => UNCHANGED <<position, velocity, cbCount, rafQueue>>]_vars

\* C11: at most one stepDecelAnim frame callback is pending, so that a frame
\* advances Position by at most one decay or settle step
C11_OneDecayGeneration == Pending("stepDecelAnim") <= 1

\* the magnitude of a velocity component after a step is smaller than before
\* (a component that is 0 stays 0)
Shrinks(v, w) == (v = Zero /\ w = Zero) \/ NLt(NAbs(w), NAbs(v))

\* C12: in the free variant every step of a decay run strictly decreases the
\* magnitude of the velocity, so that the run ends after finitely many frames
C12_DecayStepShrinksVelocity ==
    [][(variant = "free" /\ decelerating /\ lastEv'.op = "stepDecelAnim")
        => Shrinks(decVelX, decVelX') /\ Shrinks(decVelY, decVelY')]_vars

\* attractor0 as a settle step computes it from the state it starts in
Attractor0 ==
    NMul(NFloorDiv(NAdd(targetX, NDiv(decVelX, Num(2))), width), width)

\* C13: in the attractor variant a settle step that does not reschedule
\* itself leaves Position on an integer multiple of width that is one of the
\* two attractors computed in that step, leaves the velocity 0 and calls the
\* update callback exactly once, with that Position
C13_SettleStopsOnAttractor ==
    [][(variant = "attractor" /\ lastEv'.op = "stepDecelAnim"
        /\ rafQueue' = rafQueue)
        => /\ IsFin(targetX')
           /\ targetX'.v % width.v = 0
           /\ targetX' \in {Attractor0, NAdd(Attractor0, width)}
           /\ decVelX' = Zero
           /\ cbCount' = cbCount + 1
           /\ lastCb' = <<targetX'>>]_vars

\* a settle run has stopped on the attractor above the one it started from
C13_Witness ==
    /\ variant = "attractor"
    /\ lastEv.op = "stepDecelAnim"
    /\ Pending("stepDecelAnim") = 0
    /\ targetX = width
    /\ decVelX = Zero
    /\ lastCb = <<width>>

\* ------------------------------------------------- settling after a release
\* widths and start positions of the 1-D variant: width 300 with a release
\* at 140, mid-way between two attractors, and around it
SettleWidths == {Num(4), Num(300)}
SettlePositions == {Num(1), Num(2), Num(3), Num(140), Num(149), Num(150),
                    Num(151), Num(160)}

\* new Impetus({width, positionX}) of the 1-D variant, then a mousedown and
\* a mouseup at (0, 0) with no move in between: a release with velocity 0
SettleInit ==
    /\ variant = "attractor"
    /\ friction \in Frictions
    /\ width \in SettleWidths
    /\ multiplier = Num(1)
    /\ stopThreshold = Undefined
    /\ sourceEl = "found"
    /\ updateCallback = "defined"
    /\ thrown = NoError
    /\ targetX \in SettlePositions
    /\ initialX = targetX
    /\ targetY = Zero
    /\ decVelX = Zero
    /\ decVelY = Undefined
    /\ pointerLastX = 0
    /\ pointerLastY = NoCoord
    /\ pointerCurrentX = 0
    /\ pointerCurrentY = NoCoord
    /\ pointerId = NullId
    /\ ticking = FALSE
    /\ pointerActive = FALSE
    /\ paused = FALSE
    /\ decelerating = FALSE
    /\ trackingPoints = addTrackingPoint(
                            addTrackingPoint(<<>>, 0, NoCoord, 0),
                            0, NoCoord, 0)
    /\ now = 0
    /\ sourceListeners = TRUE
    /\ documentListeners = FALSE
    /\ rafQueue = <<"stepDecelAnim">>
    /\ frameRun = <<>>
    /\ lastEv = Ev("onUp", NullId)
    /\ cbCount = 0
    /\ lastCb = <<targetX>>
    /\ unintegratedX = 0
    /\ nEvents = 2
    /\ nCalls = 0

\* no further input: only animation frames run
SettleNext == FrameBegin \/ StepDecelAnim

\* the running frame calls the callback at the head of its list
RunsCallback == frameRun # <<>> /\ frameRun' = Tail(frameRun)

\* the host runs every animation frame that was requested, and a frame runs
\* every callback it holds
SettleSpec ==
    /\ SettleInit
    /\ [][SettleNext]_vars
    /\ WF_vars(FrameBegin)
    /\ WF_frameRun(RunsCallback)

\* the integer multiples of width nearest to p
NearestMultiples(p) ==
    LET below == NMul(NFloorDiv(p, width), width)
        above == NAdd(below, width)
        d0 == NSub(p, below)
        d1 == NSub(above, p)
    IN  IF NLt(d0, d1) THEN {below}
        ELSE IF NLt(d1, d0) THEN {above}
        ELSE {below, above}

\* a release with velocity 0 has just happened at Position p
ZeroVelocityRelease(p) ==
    /\ lastEv.op = "onUp"
    /\ ~documentListeners
    /\ decVelX = Zero
    /\ targetX = p
    /\ Pending("stepDecelAnim") = 1

\* C14: in the attractor variant a release with velocity 0 at any Position
\* p is followed, absent further input, by a state where no settle step is
\* pending and Position is the integer multiple of width nearest to p
C14_ZeroVelocityReleaseSettles ==
    \A p \in SettlePositions :
        [](ZeroVelocityRelease(p)
           => <>(/\ Pending("stepDecelAnim") = 0
                 /\ targetX \in NearestMultiples(p)))

\* C15: pause() ends the session, a session begins again only with an
\* accepted pointer-down (none is accepted while paused), and a move event
\* delivered while no session is active, before or after resume(), changes
\* neither Position nor the samples, requests no frame and causes no callback
C15_MoveIgnoredAfterPause ==
    /\ [][lastEv'.op = "pause" => ~pointerActive']_vars
    /\ [][(~pointerActive /\ pointerActive')
          => lastEv'.op = "onDown" /\ ~paused]_vars
    /\ [][(lastEv'.op = "onMove" /\ ~pointerActive)
          => UNCHANGED <<position, velocity, trackingPoints, pointer,
                         rafQueue, frameRun, ticking, cbCount, lastCb>>]_vars

\* a move is delivered after pause() ended a drag and resume() was called:
\* the document listeners are still registered but no session is active
C15_Witness ==
    /\ lastEv.op = "onMove"
    /\ documentListeners
    /\ ~pointerActive
    /\ ~paused
    /\ nCalls = 2

\* C16: paused implies that no session is active; pause() ends the session
\* without pushing a sample, computing a velocity or scheduling a step; a
\* pointer-down received while paused is ignored; and only resume() ends
\* the paused state
C16_PauseEndsSession ==
    /\ [](paused => ~pointerActive)
    /\ [][lastEv'.op = "pause"
          => /\ paused' /\ ~pointerActive'
             /\ UNCHANGED <<trackingPoints, velocity, position, rafQueue,
                            frameRun, decelerating, ticking>>]_vars
    /\ [][(lastEv'.op = "onDown" /\ paused)
          => UNCHANGED <<pointerActive, pointerId, pointer, trackingPoints,
                         documentListeners, decelerating>>]_vars
    /\ [][(paused /\ ~paused') => lastEv'.op = "resume"]_vars

\* pause() has ended a drag and a pointer-down arrived while paused
C16_Witness ==
    /\ paused
    /\ lastEv.op = "onDown"
    /\ documentListeners
    /\ Len(trackingPoints) = 1

\* C17: pause() leaves a decay or settle run as it is (Position, velocity,
\* decelerating and the requested frames), and a step of the run that fires
\* while paused does what it does otherwise: it decays the velocity, moves
\* Position and either calls the callback and requests the next step or
\* meets the run's own stop condition
C17_PauseKeepsRunGoing ==
    /\ [][lastEv'.op = "pause"
          => UNCHANGED <<position, velocity, decelerating, rafQueue,
                         frameRun, stopThreshold, cbCount, lastCb>>]_vars
    /\ [][(lastEv'.op = "stepDecelAnim" /\ paused /\ variant = "free"
           /\ decelerating)
          => /\ decVelX' = NMul(decVelX, friction)
             /\ decVelY' = NMul(decVelY, friction)
             /\ targetX' = NAdd(targetX, decVelX')
             /\ targetY' = NAdd(targetY, decVelY')
             /\ IF KeepsDecel(decVelX', decVelY')
                THEN /\ decelerating'
                     /\ cbCount' = cbCount + 1
                     /\ lastCb' = <<targetX', targetY'>>
                     /\ rafQueue' = Append(rafQueue, "stepDecelAnim")
                ELSE /\ ~decelerating'
                     /\ rafQueue' = rafQueue]_vars
    /\ [][(lastEv'.op = "stepDecelAnim" /\ paused /\ variant = "attractor")
          => LET r == considerAttractors(targetX, decVelX)
             IN  /\ targetX' = r.positionX
                 /\ decVelX' = r.velocityX
                 /\ cbCount' = cbCount + 1
                 /\ lastCb' = <<targetX'>>
                 /\ rafQueue' = IF r.again
                                THEN Append(rafQueue, "stepDecelAnim")
                                ELSE rafQueue]_vars

\* pause() has been called while a decay run is in progress: the run is
\* still marked as running and its next step is still requested
C17_Witness ==
    /\ variant = "free"
    /\ lastEv.op = "pause"
    /\ paused
    /\ decelerating
    /\ NGt(NAbs(decVelY), stopThreshold)
    /\ Pending("stepDecelAnim") = 1

\* C18: once destroy() has returned (the source listeners are removed), no
\* step invokes the update callback
C18_NoCallbackAfterDestroy ==
    [][~sourceListeners => cbCount' # cbCount + 1]_vars

\* C19: setValues / setX changes an axis of Position only to a number (an
\* axis whose argument is not a number keeps its value), invokes no callback
\* and changes no other state
C19_SetValuesPerAxis ==
    [][lastEv'.op = "setValues"
       => /\ targetX' = targetX \/ IsNumber(targetX')
          /\ targetY' = targetY \/ IsNumber(targetY')
          /\ UNCHANGED <<velocity, pointer, pointerId, pointerActive, paused,
                         ticking, decelerating, trackingPoints, multiplier,
                         stopThreshold, rafQueue, frameRun, cbCount,
                         lastCb>>]_vars

\* C20: in the free variant stopThreshold is 0.3 x multiplier in every
\* reachable state
C20_StopThresholdFollowsMultiplier ==
    variant = "free" => stopThreshold = NMul(stopThresholdDefault, multiplier)

\* setMultiplier has changed the multiplier while a decay run is in progress
C20_Witness ==
    /\ variant = "free"
    /\ lastEv.op = "setMultiplier"
    /\ decelerating
    /\ Pending("stepDecelAnim") = 1
    /\ multiplier = Num(1)
    /\ stopThreshold = stopThresholdDefault
    /\ IsFin(targetX) /\ targetX.v = 2 * SCALE

\* ------------------------------------------------------------ construction
\* options of `new Impetus({source, update, ...})`: the resolved source
\* element, the update callback, the initial position
SourceEls == {"found", "absent"}
UpdateCallbacks == {"defined", "missing"}
ConstructPositions == {Zero, Num(1)}

\* the closure variables as declared, before init() runs
ConstructInit ==
    /\ variant \in Variants
    /\ friction \in Frictions
    /\ width \in Widths
    /\ sourceEl \in SourceEls
    /\ updateCallback \in UpdateCallbacks
    /\ initialX \in ConstructPositions
    /\ thrown = NoError
    /\ multiplier \in Multipliers
    /\ stopThreshold = IF variant = "free"
                       THEN NMul(stopThresholdDefault, multiplier)
                       ELSE Undefined
    /\ targetX = IF variant = "free" THEN Zero ELSE initialX
    /\ targetY = Zero
    /\ decVelX = Undefined
    /\ decVelY = Undefined
    /\ pointerLastX = NoCoord
    /\ pointerLastY = NoCoord
    /\ pointerCurrentX = NoCoord
    /\ pointerCurrentY = NoCoord
    /\ pointerId = UndefinedId
    /\ ticking = FALSE
    /\ pointerActive = FALSE
    /\ paused = FALSE
    /\ decelerating = FALSE
    /\ trackingPoints = <<>>
    /\ now = 0
    /\ sourceListeners = FALSE
    /\ documentListeners = FALSE
    /\ rafQueue = <<>>
    /\ frameRun = <<>>
    /\ lastEv = Ev("new", NullId)
    /\ cbCount = 0
    /\ lastCb = <<>>
    /\ unintegratedX = 0
    /\ nEvents = 0
    /\ nCalls = 0

\* init() of the free variant
ConstructFree ==
    IF sourceEl = "absent"
    THEN /\ thrown' = "IMPETUS: source not found."
         /\ UNCHANGED <<targetX, cbCount, lastCb, sourceListeners>>
    ELSE IF updateCallback = "missing"
    THEN /\ thrown' = "IMPETUS: update function not defined."
         /\ UNCHANGED <<targetX, cbCount, lastCb, sourceListeners>>
    ELSE /\ IF initialX # Zero
            THEN /\ targetX' = initialX
                 /\ cbCount' = cbCount + 1
                 /\ lastCb' = callbackArgs(initialX, targetY)
            ELSE UNCHANGED <<targetX, cbCount, lastCb>>
         /\ sourceListeners' = TRUE
         /\ UNCHANGED thrown

\* init() of the attractor variant: it validates nothing, so a missing
\* callback or source element shows as a TypeError where it is first used
ConstructAttractor ==
    IF initialX # Zero /\ updateCallback = "missing"
    THEN /\ thrown' = "TypeError"
         /\ UNCHANGED <<targetX, cbCount, lastCb, sourceListeners>>
    ELSE /\ IF initialX # Zero
            THEN /\ cbCount' = cbCount + 1
                 /\ lastCb' = callbackArgs(targetX, targetY)
            ELSE UNCHANGED <<cbCount, lastCb>>
         /\ IF sourceEl = "absent"
            THEN /\ thrown' = "TypeError"
                 /\ UNCHANGED sourceListeners
            ELSE /\ sourceListeners' = TRUE
                 /\ UNCHANGED thrown
         /\ UNCHANGED targetX

\* new Impetus(options)
Construct ==
    /\ lastEv.op = "new"
    /\ IF variant = "free" THEN ConstructFree ELSE ConstructAttractor
    /\ lastEv' = Ev("init", NullId)
    /\ UNCHANGED <<options, multiplier, stopThreshold, targetY, velocity,
                   pointer, pointerId, ticking, pointerActive, paused,
                   decelerating, trackingPoints, now, documentListeners,
                   rafQueue, frameRun, unintegratedX, nEvents, nCalls>>

\* the constructor returned an instance whose callback can be called
Constructed ==
    lastEv.op # "new" /\ thrown = NoError /\ updateCallback = "defined"

ConstructNext == Construct \/ (Constructed /\ Next)

ConstructSpec == ConstructInit /\ [][ConstructNext]_vars

\* C21: in every variant, when the resolved source element is absent or the
\* update callback is missing, the constructor throws, registers no listener
\* and invokes no callback
C21_ConstructionFailsFast ==
    (lastEv.op # "new" /\ (sourceEl = "absent" \/ updateCallback = "missing"))
        => /\ thrown # NoError
           /\ ~sourceListeners
           /\ lastCb = <<>>

\* ------------------------------------------- a drag of 100 px over 50 ms
\* friction and multiplier options of the scenario's instances
ScenarioFrictions == {Fin(RDiv(9 * SCALE, 10)), Fin(RDiv(92 * SCALE, 100))}
ScenarioMultipliers == {Num(1), Num(2)}

\* new Impetus({source, update, friction, multiplier}) of the free variant
ScenarioInit ==
    /\ variant = "free"
    /\ friction \in ScenarioFrictions
    /\ width \in Widths
    /\ sourceEl = "found"
    /\ updateCallback = "defined"
    /\ initialX = Zero
    /\ thrown = NoError
    /\ multiplier \in ScenarioMultipliers
    /\ stopThreshold = NMul(stopThresholdDefault, multiplier)
    /\ targetX = Zero
    /\ targetY = Zero
    /\ decVelX = Undefined
    /\ decVelY = Undefined
    /\ pointerLastX = NoCoord
    /\ pointerLastY = NoCoord
    /\ pointerCurrentX = NoCoord
    /\ pointerCurrentY = NoCoord
    /\ pointerId = UndefinedId
    /\ ticking = FALSE
    /\ pointerActive = FALSE
    /\ paused = FALSE
    /\ decelerating = FALSE
    /\ trackingPoints = <<>>
    /\ now = 0
    /\ sourceListeners = TRUE
    /\ documentListeners = FALSE
    /\ rafQueue = <<>>
    /\ frameRun = <<>>
    /\ lastEv = Ev("init", NullId)
    /\ cbCount = 0
    /\ lastCb = <<>>
    /\ unintegratedX = 0
    /\ nEvents = 0
    /\ nCalls = 0

\* mousedown at x = 0, 50 ms later a mousemove to x = 100, the frame that
\* integrates it, then the mouseup at once
ScenarioDown == nEvents = 0 /\ OnDown(MouseEvent("mousedown", 0, 0))
ScenarioWait == nEvents = 1 /\ Advance(50)
ScenarioMove == nEvents = 2 /\ OnMove(MouseEvent("mousemove", 100, 0))
ScenarioUp ==
    /\ nEvents = 3
    /\ Pending("updateAndRender") = 0
    /\ OnUp(MouseEvent("mouseup", 100, 0))

ScenarioNext ==
    \/ ScenarioDown
    \/ ScenarioWait
    \/ ScenarioMove
    \/ ScenarioUp
    \/ FrameBegin
    \/ UpdateAndRender
    \/ StepDecelAnim

ScenarioSpec == ScenarioInit /\ [][ScenarioNext]_vars

\* the scenario's instance: friction 0.9, multiplier 1
ScenarioCase ==
    friction = Fin(RDiv(9 * SCALE, 10)) /\ multiplier = Num(1)

\* the drag has been released and the decay run it started has ended
ScenarioAtRest ==
    /\ ScenarioCase
    /\ lastEv.op = "stepDecelAnim"
    /\ ~pointerActive
    /\ ~decelerating
    /\ Pending("stepDecelAnim") = 0

\* a is within tol of b
About(a, b, tol) == IsFin(a) /\ NLt(NAbs(NSub(a, b)), tol)

\* C22 (as amended): in the scenario the release velocity is 30 (within 0.1)
\* and, each step decaying the velocity before it moves Position, the run
\* adds 30 * 0.9 / (1 - 0.9) = 270 less the tail cut off at the stop
\* threshold, so that Position ends at 367.4 (within 1)
C22_ScenarioEndsNear367 ==
    /\ (ScenarioCase /\ lastEv.op = "onUp")
           => About(decVelX, Num(30), Fin(SCALE \div 10))
    /\ ScenarioAtRest
           => About(targetX, Fin(RDiv(3674 * SCALE, 10)), Num(1))

\* the scenario's run has ended
C22_Witness ==
    /\ ScenarioAtRest
    /\ nEvents = 4
    /\ NGt(targetX, Num(300))
    /\ lastCb # <<>>

\* C22 (as stated): in the scenario the release velocity is 30 and the run
\* adds about 30 / (1 - 0.9) = 300, so that Position ends at about 400
\* (within 5 %, that is 20)
C22_ScenarioEndsNear400 ==
    /\ (ScenarioCase /\ lastEv.op = "onUp")
           => About(decVelX, Num(30), Fin(SCALE \div 10))
    /\ ScenarioAtRest
           => About(targetX, Num(400), Num(20))

\* the timestamps of the buffer do not decrease and no sample is more than
\* 100 ms older than the newest
BufferInWindow(points) ==
    /\ \A i \in 1..(Len(points) - 1) : points[i].time <= points[i + 1].time
    /\ \A i \in 1..Len(points) :
           points[Len(points)].time - points[i].time <= 100

\* the step pushes a sample: an accepted pointer-down, an accepted move, or
\* a release
Pushes ==
    \/ lastEv'.op = "onDown" /\ ~pointerActive /\ pointerActive'
    \/ lastEv'.op = "onMove" /\ pointerActive /\ lastEv'.id = pointerId
    \/ Released

\* C23: the sample buffer is always within its 100 ms window with
\* non-decreasing timestamps; after every push it is non-empty and its
\* newest element carries the time of the push, so the buffer is non-empty
\* whenever a release computes the velocity
C23_SampleBufferWindow ==
    /\ [](BufferInWindow(trackingPoints))
    /\ [][Pushes
          => /\ Len(trackingPoints') >= 1
             /\ trackingPoints'[Len(trackingPoints')].time = now']_vars
    /\ [][Released => trackingPoints' # <<>> /\ ~IsNaN(decVelX')]_vars

\* an accepted move arrived more than 100 ms after the pointer-down: the
\* pointer-down's sample was pruned and only the new sample is left
C23_Witness ==
    /\ lastEv.op = "onMove"
    /\ pointerActive
    /\ now > 100
    /\ Len(trackingPoints) = 1
    /\ trackingPoints[1].time = now

\* the newest sample of a buffer
Newest(points) == points[Len(points)]

\* C24: pointerLast changes only at a pointer-down or a frame integration;
\* the sample an accepted move pushes and the sample a release pushes carry
\* pointerLast, not the event's position; and the release velocity is
\* computed from the oldest retained sample and pointerLast, so that it
\* holds no displacement that no frame has integrated
C24_SamplesCarryPointerLast ==
    /\ [][<<pointerLastX, pointerLastY>>' # <<pointerLastX, pointerLastY>>
          => lastEv'.op \in {"onDown", "updateAndRender"}]_vars
    /\ [][(lastEv'.op = "onMove" /\ pointerActive /\ lastEv'.id = pointerId)
          => /\ Newest(trackingPoints').x = pointerLastX
             /\ Newest(trackingPoints').y = pointerLastY
             /\ UNCHANGED <<pointerLastX, pointerLastY>>]_vars
    /\ [][Released
          => /\ Newest(trackingPoints').x = pointerLastX
             /\ Newest(trackingPoints').y = pointerLastY
             /\ decVelX' = ReleaseVelocity(trackingPoints'[1].x, pointerLastX,
                                           trackingPoints'[1].time, now)]_vars

\* a move to a new position has been accepted and no frame has integrated
\* it yet: the sample it pushed is the position before the move
C24_Witness ==
    /\ lastEv.op = "onMove"
    /\ pointerActive
    /\ pointerCurrentX # pointerLastX
    /\ Pending("updateAndRender") = 1
    /\ Newest(trackingPoints).x = pointerLastX
    /\ Newest(trackingPoints).x # pointerCurrentX

\* 0.04 * width
SettleThreshold == NMul(Fin(RDiv(4 * SCALE, 100)), width)

\* the velocity a settle step computes from the state it starts in: add
\* (distance0 - distance1) / width * 3, then multiply by 0.92
SettledVelocity ==
    LET mid == NAdd(targetX, NDiv(decVelX, Num(2)))
        distance0 == NSub(mid, Attractor0)
        distance1 == NSub(width, distance0)
    IN  NMul(NAdd(decVelX,
                  NMul(NDiv(NSub(distance0, distance1), width), Num(3))),
             Fin(RDiv(92 * SCALE, 100)))

\* C25: a settle step computes the new velocity and the new Position (the
\* old one plus the new velocity) and then tests the velocity it started
\* with against the new Position: it snaps to attractor0, else to
\* attractor1, else keeps the new values, calls the callback and requests
\* the next step
C25_SettleStepOrder ==
    [][(variant = "attractor" /\ lastEv'.op = "stepDecelAnim")
       => LET newPosition == NAdd(targetX, SettledVelocity)
              attractor1 == NAdd(Attractor0, width)
          IN  IF /\ NGt(decVelX, NNeg(SettleThreshold))
                 /\ NLt(newPosition, NAdd(Attractor0, SettleThreshold))
              THEN /\ targetX' = Attractor0
                   /\ decVelX' = Zero
                   /\ rafQueue' = rafQueue
              ELSE IF /\ NLt(decVelX, SettleThreshold)
                      /\ NGt(newPosition, NSub(attractor1, SettleThreshold))
              THEN /\ targetX' = attractor1
                   /\ decVelX' = Zero
                   /\ rafQueue' = rafQueue
              ELSE /\ targetX' = newPosition
                   /\ decVelX' = SettledVelocity
                   /\ cbCount' = cbCount + 1
                   /\ lastCb' = <<newPosition>>
                   /\ rafQueue' = Append(rafQueue, "stepDecelAnim")]_vars

\* a settle step has kept its new, non-zero velocity and requested the
\* next step
C25_Witness ==
    /\ variant = "attractor"
    /\ lastEv.op = "stepDecelAnim"
    /\ IsFin(decVelX) /\ decVelX # Zero
    /\ IsFin(targetX)
    /\ lastCb = <<targetX>>
    /\ rafQueue = <<"stepDecelAnim">>

\* C26: in the free variant, when the step that ends a decay run leaves the
\* tracker at rest (no session, no frame callback pending) and the host had
\* the current Position before that step, the host has it after the step:
\* the value last passed to the update callback is Position on each axis
C26_HostSeesPositionAtRest ==
    [][(/\ variant = "free"
        /\ lastEv'.op = "stepDecelAnim"
        /\ decelerating /\ ~decelerating'
        /\ ~pointerActive'
        /\ rafQueue' = <<>> /\ frameRun' = <<>>
        /\ lastCb = <<targetX, targetY>>)
       => lastCb' = <<targetX', targetY'>>]_vars

====
